---- MODULE Spec2Model ----
(***************************************************************************)
(* zuuid: a command-line UUID v4/v7 generator (src/main.rs).               *)
(*                                                                         *)
(* A string is a sequence of one-character strings, "-fs" being            *)
(* <<"-", "f", "s">>; the raw argument list is a sequence of such tokens,  *)
(* the program name first.  A UUID is its 32 hexadecimal digits, each a    *)
(* number in 0..15.  Messages on the diagnostic stream are named by the    *)
(* Messages method that produces them; the language only selects the       *)
(* wording of a message and is left out.                                   *)
(***************************************************************************)
EXTENDS Integers, Sequences, FiniteSets

VARIABLES
    args,         \* std::env::args(): the raw argument list
    pc,           \* position in main (or in the call under study)
    prefer_full,  \* main's local prefer_full
    conflict,     \* main's local conflict
    cli,          \* the result of Cli::parse()
    n,            \* iterations of main's for loop completed
    stderr,       \* lines written with eprintln!, oldest first
    stdout,       \* lines written with println!, oldest first
    exit_code,    \* the process's exit status once it has ended
    seed,         \* the randomness a lone generate_uuid call consumed
    output        \* the String a lone generate_uuid call returned

vars == <<args, pc, prefer_full, conflict, cli, n, stderr, stdout, exit_code, seed, output>>

(***************************************************************************)
(* Bounds of the model.                                                    *)
(***************************************************************************)
MaxArgs == 3      \* tokens after the program name
MaxCount == 2     \* largest count value given on the command line
NumSeeds == 2     \* distinct random draws of the UUID generator
LongPad == 1001   \* filler characters in the long tokens

(***************************************************************************)
(* Characters.                                                             *)
(***************************************************************************)
LowerLetters == <<"a", "b", "c", "d", "e", "f", "g", "h", "i", "j", "k", "l", "m",
                  "n", "o", "p", "q", "r", "s", "t", "u", "v", "w", "x", "y", "z">>
UpperLetters == <<"A", "B", "C", "D", "E", "F", "G", "H", "I", "J", "K", "L", "M",
                  "N", "O", "P", "Q", "R", "S", "T", "U", "V", "W", "X", "Y", "Z">>
Digits == <<"0", "1", "2", "3", "4", "5", "6", "7", "8", "9">>

IsLower(ch) == \E k \in 1..Len(LowerLetters) : LowerLetters[k] = ch
IsUpper(ch) == \E k \in 1..Len(UpperLetters) : UpperLetters[k] = ch

\* char::to_lowercase / char::to_uppercase on the ASCII range
ToLowerChar(ch) ==
    IF IsUpper(ch)
    THEN LowerLetters[CHOOSE k \in 1..Len(UpperLetters) : UpperLetters[k] = ch]
    ELSE ch
ToUpperChar(ch) ==
    IF IsLower(ch)
    THEN UpperLetters[CHOOSE k \in 1..Len(LowerLetters) : LowerLetters[k] = ch]
    ELSE ch

\* str::to_lowercase
to_lowercase(s) == [k \in 1..Len(s) |-> ToLowerChar(s[k])]

\* str::to_uppercase
to_uppercase(s) == [k \in 1..Len(s) |-> ToUpperChar(s[k])]

\* str::starts_with(char)
starts_with(s, ch) == Len(s) >= 1 /\ s[1] = ch

\* Option<usize>
None == [is_some |-> FALSE]
Some(x) == [is_some |-> TRUE, v |-> x]

(***************************************************************************)
(* determine_format_precedence (main.rs 129-166).                          *)
(***************************************************************************)
FullChars == {"f", "F"}
SimpleChars == {"s", "S"}

\* The multiplier of the composite position i * 1000 + j
PosBase == 1000

\* The inner loop over flags.chars().enumerate() for one class of characters:
\* a position is recorded only while none is, so the loop leaves the position
\* of the smallest j whose character is in the class.
FirstChar(flags, class) ==
    LET hits == {j \in 0..(Len(flags) - 1) : flags[j + 1] \in class}
    IN  IF hits = {} THEN None
        ELSE Some(CHOOSE j \in hits : \A k \in hits : j <= k)

\* A mutant of ScanToken: every token is scanned, dash or no dash.
ScanToken_NoDashTest(arg, i, pos) ==
    IF Len(arg) > 1
    THEN LET flags == Tail(arg)
             f == FirstChar(flags, FullChars)
             s == FirstChar(flags, SimpleChars)
         IN  [full_pos   |-> IF ~pos.full_pos.is_some /\ f.is_some
                             THEN Some(i * PosBase + f.v) ELSE pos.full_pos,
              simple_pos |-> IF ~pos.simple_pos.is_some /\ s.is_some
                             THEN Some(i * PosBase + s.v) ELSE pos.simple_pos]
    ELSE pos

\* A mutant of ScanToken: only single-dash clusters are scanned.
ScanToken_ShortOnly(arg, i, pos) ==
    IF starts_with(arg, "-") /\ Len(arg) > 1 /\ arg[2] # "-"
    THEN LET flags == Tail(arg)
             f == FirstChar(flags, FullChars)
             s == FirstChar(flags, SimpleChars)
         IN  [full_pos   |-> IF ~pos.full_pos.is_some /\ f.is_some
                             THEN Some(i * PosBase + f.v) ELSE pos.full_pos,
              simple_pos |-> IF ~pos.simple_pos.is_some /\ s.is_some
                             THEN Some(i * PosBase + s.v) ELSE pos.simple_pos]
    ELSE pos

\* One iteration of the loop over args.iter().enumerate(): token arg at index i
\* (the program name has index 0), pos the pair (full_pos, simple_pos) so far.
ScanToken(arg, i, pos) ==
    IF starts_with(arg, "-") /\ Len(arg) > 1
    THEN LET flags == Tail(arg)
             f == FirstChar(flags, FullChars)
             s == FirstChar(flags, SimpleChars)
         IN  [full_pos   |-> IF ~pos.full_pos.is_some /\ f.is_some
                             THEN Some(i * PosBase + f.v) ELSE pos.full_pos,
              simple_pos |-> IF ~pos.simple_pos.is_some /\ s.is_some
                             THEN Some(i * PosBase + s.v) ELSE pos.simple_pos]
    ELSE pos

RECURSIVE ScanArgs(_, _, _)
ScanArgs(a, i, pos) ==
    IF i >= Len(a) THEN pos
    ELSE ScanArgs(a, i + 1, ScanToken(a[i + 1], i, pos))

\* The closing match on (full_pos, simple_pos)
Precedence(pos) ==
    IF pos.full_pos.is_some /\ pos.simple_pos.is_some
    THEN [prefer_full |-> pos.full_pos.v < pos.simple_pos.v, conflict |-> TRUE]
    ELSE [prefer_full |-> TRUE, conflict |-> FALSE]

determine_format_precedence(a) ==
    Precedence(ScanArgs(a, 0, [full_pos |-> None, simple_pos |-> None]))

(***************************************************************************)
(* Raw argument lists.                                                     *)
(***************************************************************************)
Pad(len) == [k \in 1..len |-> "x"]

ProgramName == <<"z", "u", "u", "i", "d">>
LongFull == <<"-", "-", "f", "u", "l", "l">>
LongSimple == <<"-", "-", "s", "i", "m", "p", "l", "e">>
LongUpper == <<"-", "-", "u", "p", "p", "e", "r">>
LongVersion == <<"-", "-", "u", "u", "i", "d", "-", "v", "e", "r", "s", "i", "o", "n">>
LongCount == <<"-", "-", "c", "o", "u", "n", "t">>
LongHelp == <<"-", "-", "h", "e", "l", "p">>

RECURSIVE SeqsUpTo(_, _)
SeqsUpTo(S, len) ==
    IF len = 0 THEN {<<>>}
    ELSE LET shorter == SeqsUpTo(S, len - 1)
         IN  shorter \cup {Append(q, t) : q \in shorter, t \in S}

\* Tokens for the study of determine_format_precedence alone
ScanTokens ==
    { <<"-", "f">>, <<"-", "s">>, <<"-", "F">>, <<"-", "S">>,
      <<"-", "f", "s">>, <<"-", "s", "f">>, <<"-", "U">>, <<"-">>,
      <<"f", "s">>, <<"s">>, ProgramName,
      LongFull, LongSimple, LongVersion,
      <<"-">> \o Pad(LongPad) \o <<"f">>,
      <<"-">> \o Pad(LongPad) \o <<"s">> }

ScanArgLists == SeqsUpTo(ScanTokens, MaxArgs)

(***************************************************************************)
(* determine_format_precedence on its own.                                 *)
(***************************************************************************)
InitPrecedence ==
    /\ args \in ScanArgLists
    /\ pc = "call"
    /\ prefer_full = FALSE
    /\ conflict = FALSE
    /\ cli = [ok |-> FALSE]
    /\ n = 0
    /\ stderr = <<>>
    /\ stdout = <<>>
    /\ exit_code = -1
    /\ seed = 0
    /\ output = <<>>

ResolveCall ==
    /\ pc = "call"
    /\ LET r == determine_format_precedence(args)
       IN  /\ prefer_full' = r.prefer_full
           /\ conflict' = r.conflict
    /\ pc' = "returned"
    /\ UNCHANGED <<args, cli, n, stderr, stdout, exit_code, seed, output>>

NextPrecedence == ResolveCall

SpecPrecedence == InitPrecedence /\ [][NextPrecedence]_vars

(***************************************************************************)
(* What the argument list holds, stated without the scan: the occurrences  *)
(* of a class of characters as pairs <<token index, character index>>,     *)
(* both counted from 0 as enumerate() counts them, the character index     *)
(* being that within the token less its leading dash.                      *)
(***************************************************************************)
Occurrences(a, class) ==
    UNION { {<<i, j>> : j \in {k \in 0..(Len(a[i + 1]) - 2) : a[i + 1][k + 2] \in class}} :
            i \in {h \in 0..(Len(a) - 1) : Len(a[h + 1]) > 1 /\ a[h + 1][1] = "-"} }

Before(p, q) == p[1] < q[1] \/ (p[1] = q[1] /\ p[2] < q[2])

First(occ) == CHOOSE p \in occ : \A q \in occ : p = q \/ Before(p, q)

BothClasses(a) == Occurrences(a, FullChars) # {} /\ Occurrences(a, SimpleChars) # {}

IsLongForm(arg) == Len(arg) >= 2 /\ arg[1] = "-" /\ arg[2] = "-"

WithoutLongForms(a) == SelectSeq(a, LAMBDA arg : ~IsLongForm(arg))

\* C1: when both a full and a simple indicator occur in dash-prefixed tokens,
\* conflict is true and prefer_full says whether the first f/F comes before
\* the first s/S, tokens left to right and characters left to right.
C1_FirstOccurrenceDecides ==
    (pc = "returned" /\ BothClasses(args)) =>
        /\ conflict
        /\ prefer_full <=> Before(First(Occurrences(args, FullChars)),
                                  First(Occurrences(args, SimpleChars)))

\* C2: when at most one of the two classes occurs in the scanned tokens, the
\* result is conflict = false and prefer_full = true.
C2_NoConflictDefault ==
    (pc = "returned" /\ ~BothClasses(args)) => (~conflict /\ prefer_full)

C2_Witness ==
    /\ pc = "returned"
    /\ Occurrences(args, FullChars) # {}
    /\ Occurrences(args, SimpleChars) = {}
    /\ \E i \in 1..Len(args) : args[i] = <<"f", "s">>
    /\ \E i \in 1..Len(args) : args[i] = <<"-">>

\* C9: long-form tokens contribute no position: the result is that of the
\* argument list with its double-dash tokens removed.
C9_LongFormsIgnored ==
    pc = "returned" =>
        determine_format_precedence(WithoutLongForms(args))
            = [prefer_full |-> prefer_full, conflict |-> conflict]

\* C10: token order dominates character order: when the first full indicator
\* is in an earlier token than the first simple indicator prefer_full is true,
\* and when it is in a later token prefer_full is false.
C10_TokenOrderDominates ==
    (pc = "returned" /\ BothClasses(args)) =>
        LET f == First(Occurrences(args, FullChars))
            s == First(Occurrences(args, SimpleChars))
        IN  /\ f[1] < s[1] => prefer_full
            /\ s[1] < f[1] => ~prefer_full

(***************************************************************************)
(* generate_uuid (main.rs 182-209).  The uuid crate supplies the value and *)
(* its two renderings; rnd stands for the randomness (and the clock) the   *)
(* generator reads.                                                        *)
(***************************************************************************)
HexLower == <<"0", "1", "2", "3", "4", "5", "6", "7", "8", "9", "a", "b", "c", "d", "e", "f">>

\* Uuid::new_v4(): random digits, the version digit 4, a variant digit in 8..b
new_v4(rnd) ==
    [k \in 1..32 |-> IF k = 13 THEN 4
                     ELSE IF k = 17 THEN 8 + (rnd % 4)
                     ELSE (rnd * k) % 16]

\* Uuid::now_v7(): a timestamp, the version digit 7, a variant digit, random digits
now_v7(rnd) ==
    [k \in 1..32 |-> IF k = 13 THEN 7
                     ELSE IF k = 17 THEN 8 + (rnd % 4)
                     ELSE (rnd * (k + 5)) % 16]

\* Uuid::to_string(): lowercase digits in groups of 8-4-4-4-12
hyphenated(u) ==
    [k \in 1..36 |-> IF k \in {9, 14, 19, 24} THEN "-"
                     ELSE HexLower[u[k - Cardinality({h \in {9, 14, 19, 24} : h < k})] + 1]]

\* Uuid::as_simple().to_string(): the 32 lowercase digits
as_simple(u) == [k \in 1..32 |-> HexLower[u[k] + 1]]

\* A mutant of Render: the full flag wins whenever it is set.
Render_FullWins(u, simple, full, pf) ==
    IF full THEN hyphenated(u)
    ELSE IF simple THEN as_simple(u)
    ELSE hyphenated(u)

\* The choice of the rendering (main.rs 189-202), pf being prefer_full
Render(u, simple, full, pf) ==
    IF full /\ simple
    THEN IF pf THEN hyphenated(u) ELSE as_simple(u)
    ELSE IF full THEN hyphenated(u)
    ELSE IF simple THEN as_simple(u)
    ELSE hyphenated(u)

\* A mutant of generate_uuid: the uppercase flag is not honoured.
generate_uuid_NoUppercase(version, uppercase, simple, full, pf, rnd) ==
    Render(IF version = "V4" THEN new_v4(rnd) ELSE now_v7(rnd), simple, full, pf)

generate_uuid(version, uppercase, simple, full, pf, rnd) ==
    LET u == IF version = "V4" THEN new_v4(rnd) ELSE now_v7(rnd)
        out == Render(u, simple, full, pf)
    IN  IF uppercase THEN to_uppercase(out) ELSE out

(***************************************************************************)
(* generate_uuid on its own.                                               *)
(***************************************************************************)
InitFormat ==
    /\ args = <<>>
    /\ pc = "call"
    /\ prefer_full \in BOOLEAN
    /\ conflict = FALSE
    /\ cli \in [ok : {TRUE}, version : {"V4", "V7"}, uppercase : BOOLEAN,
                simple : BOOLEAN, full : BOOLEAN, count : {1}]
    /\ n = 0
    /\ stderr = <<>>
    /\ stdout = <<>>
    /\ exit_code = -1
    /\ seed \in 0..(NumSeeds - 1)
    /\ output = <<>>

FormatCall ==
    /\ pc = "call"
    /\ output' = generate_uuid(cli.version, cli.uppercase, cli.simple, cli.full,
                               prefer_full, seed)
    /\ pc' = "returned"
    /\ UNCHANGED <<args, prefer_full, conflict, cli, n, stderr, stdout, exit_code, seed>>

NextFormat == FormatCall

SpecFormat == InitFormat /\ [][NextFormat]_vars

HyphenAt == {9, 14, 19, 24}

IsHexChar(ch) ==
    \/ \E k \in 1..Len(Digits) : Digits[k] = ch
    \/ ch \in {"a", "b", "c", "d", "e", "f", "A", "B", "C", "D", "E", "F"}

IsCompact(str) ==
    /\ Len(str) = 32
    /\ \A k \in 1..Len(str) : IsHexChar(str[k])

IsHyphenated(str) ==
    /\ Len(str) = 36
    /\ \A k \in 1..Len(str) : IF k \in HyphenAt THEN str[k] = "-" ELSE IsHexChar(str[k])

\* C3: generate_uuid returns the compact rendering exactly when simple is set
\* and full or prefer_full is not, and the hyphenated rendering otherwise;
\* prefer_full changes nothing unless simple and full are both set.
C3_RenderingChoice ==
    pc = "returned" =>
        /\ IF cli.simple /\ (~cli.full \/ ~prefer_full)
           THEN IsCompact(output) /\ ~IsHyphenated(output)
           ELSE IsHyphenated(output) /\ ~IsCompact(output)
        /\ ~(cli.simple /\ cli.full) =>
              output = generate_uuid(cli.version, cli.uppercase, cli.simple, cli.full,
                                     ~prefer_full, seed)

C3_Witness ==
    /\ pc = "returned"
    /\ cli.simple /\ cli.full /\ ~prefer_full
    /\ IsCompact(output)

\* C4: with uppercase the returned string has no lowercase letter, without it
\* no uppercase letter, and the flag changes neither the length of the string
\* nor where its hyphens are.
C4_CaseOfOutput ==
    pc = "returned" =>
        LET other == generate_uuid(cli.version, ~cli.uppercase, cli.simple, cli.full,
                                   prefer_full, seed)
        IN  /\ cli.uppercase => \A k \in 1..Len(output) : ~IsLower(output[k])
            /\ ~cli.uppercase => \A k \in 1..Len(output) : ~IsUpper(output[k])
            /\ Len(output) = Len(other)
            /\ \A k \in 1..Len(output) : (output[k] = "-") <=> (other[k] = "-")

C4_Witness ==
    /\ pc = "returned"
    /\ cli.uppercase
    /\ \E k \in 1..Len(output) : IsUpper(output[k])
    /\ \E k \in 1..Len(output) : output[k] = "-"

(***************************************************************************)
(* UuidVersion::from_str (main.rs 80-89).                                  *)
(***************************************************************************)
\* A mutant of UuidVersion_from_str: the catch-all arm yields the default.
UuidVersion_from_str_DefaultsToV4(str) ==
    LET low == to_lowercase(str)
    IN  IF low \in {<<"7">>, <<"v", "7">>} THEN [ok |-> TRUE, v |-> "V7"]
        ELSE [ok |-> TRUE, v |-> "V4"]

UuidVersion_from_str(str) ==
    LET low == to_lowercase(str)
    IN  IF low \in {<<"4">>, <<"v", "4">>} THEN [ok |-> TRUE, v |-> "V4"]
        ELSE IF low \in {<<"7">>, <<"v", "7">>} THEN [ok |-> TRUE, v |-> "V7"]
        ELSE [ok |-> FALSE, err |-> "invalid_version"]

(***************************************************************************)
(* Cli::parse (main.rs 102-125, 213): clap binds the tokens after the      *)
(* program name, left to right, to the five arguments the derive declares  *)
(* and to the help flag it adds, and stops at the first error.             *)
(***************************************************************************)
IsDigit(ch) == \E k \in 1..Len(Digits) : Digits[k] = ch
DigitValue(ch) == (CHOOSE k \in 1..Len(Digits) : Digits[k] = ch) - 1

RECURSIVE Decimal(_)
Decimal(str) ==
    IF str = <<>> THEN 0
    ELSE 10 * Decimal(SubSeq(str, 1, Len(str) - 1)) + DigitValue(str[Len(str)])

\* usize::from_str, the value parser of count: an optional plus sign, then digits
parse_usize(str) ==
    LET digits == IF starts_with(str, "+") THEN Tail(str) ELSE str
    IN  IF digits # <<>> /\ \A k \in 1..Len(digits) : IsDigit(digits[k])
        THEN [ok |-> TRUE, v |-> Decimal(digits)]
        ELSE [ok |-> FALSE, err |-> "invalid_count"]

\* The defaults of the derive: default_value = "4", default_value = "1", flags off
CliDefaults ==
    [version |-> UuidVersion_from_str(<<"4">>).v, uppercase |-> FALSE, simple |-> FALSE,
     full |-> FALSE, count |-> parse_usize(<<"1">>).v, seen |-> {}]

Fail(kind) == [ok |-> FALSE, err |-> kind]

\* short = 'V' / 'U' / 's' / 'f' / 'n', with the visible_short_alias of each
ShortArg(ch) ==
    IF ch \in {"V", "v"} THEN "version"
    ELSE IF ch \in {"U", "u"} THEN "uppercase"
    ELSE IF ch \in {"s", "S"} THEN "simple"
    ELSE IF ch \in {"f", "F"} THEN "full"
    ELSE IF ch = "n" THEN "count"
    ELSE IF ch = "h" THEN "help"
    ELSE "unknown"

\* long = "uuid-version" / "upper" / "simple" / "full" / "count"
LongArg(name) ==
    IF name = SubSeq(LongVersion, 3, Len(LongVersion)) THEN "version"
    ELSE IF name = SubSeq(LongUpper, 3, Len(LongUpper)) THEN "uppercase"
    ELSE IF name = SubSeq(LongSimple, 3, Len(LongSimple)) THEN "simple"
    ELSE IF name = SubSeq(LongFull, 3, Len(LongFull)) THEN "full"
    ELSE IF name = SubSeq(LongCount, 3, Len(LongCount)) THEN "count"
    ELSE IF name = SubSeq(LongHelp, 3, Len(LongHelp)) THEN "help"
    ELSE "unknown"

TakesValue(field) == field \in {"version", "count"}

\* A token that clap reads as a flag and not as the value of an option
LooksLikeFlag(arg) == starts_with(arg, "-") /\ Len(arg) > 1

\* Index of the first "=" of str, or Len(str) + 1
EqualsAt(str) ==
    LET at == {k \in 1..Len(str) : str[k] = "="}
    IN  IF at = {} THEN Len(str) + 1 ELSE CHOOSE k \in at : \A h \in at : k <= h

\* An occurrence of an argument: a second one is refused, a value is parsed.
Store(acc, field, val) ==
    IF field \in acc.seen THEN Fail("argument_conflict")
    ELSE IF field = "version"
    THEN LET r == UuidVersion_from_str(val)
         IN  IF r.ok THEN [ok |-> TRUE, acc |-> [acc EXCEPT !.version = r.v, !.seen = @ \cup {field}]]
             ELSE Fail(r.err)
    ELSE IF field = "count"
    THEN LET r == parse_usize(val)
         IN  IF r.ok THEN [ok |-> TRUE, acc |-> [acc EXCEPT !.count = r.v, !.seen = @ \cup {field}]]
             ELSE Fail(r.err)
    ELSE [ok |-> TRUE, acc |-> [acc EXCEPT ![field] = TRUE, !.seen = @ \cup {field}]]

RECURSIVE BindFrom(_, _, _)
RECURSIVE BindShort(_, _, _, _)

\* An option whose value is the next token
BindNextValue(a, k, field, acc) ==
    IF k + 1 > Len(a) \/ LooksLikeFlag(a[k + 1]) THEN Fail("missing_value")
    ELSE LET r == Store(acc, field, a[k + 1])
         IN  IF r.ok THEN BindFrom(a, k + 2, r.acc) ELSE r

\* The token a[k] is --name or --name=value
BindLong(a, k, acc) ==
    LET body == SubSeq(a[k], 3, Len(a[k]))
        eq == EqualsAt(body)
        field == LongArg(SubSeq(body, 1, eq - 1))
        attached == SubSeq(body, eq + 1, Len(body))
    IN  IF field = "unknown" THEN Fail("unknown_argument")
        ELSE IF field = "help" THEN Fail("display_help")
        ELSE IF TakesValue(field)
        THEN IF eq <= Len(body)
             THEN LET r == Store(acc, field, attached)
                  IN  IF r.ok THEN BindFrom(a, k + 1, r.acc) ELSE r
             ELSE BindNextValue(a, k, field, acc)
        ELSE IF eq <= Len(body) THEN Fail("too_many_values")
        ELSE LET r == Store(acc, field, <<>>)
             IN  IF r.ok THEN BindFrom(a, k + 1, r.acc) ELSE r

\* The token a[k] is a cluster of short flags, read from its c-th character
BindShort(a, k, c, acc) ==
    IF c > Len(a[k]) THEN BindFrom(a, k + 1, acc)
    ELSE LET field == ShortArg(a[k][c])
             rest == SubSeq(a[k], c + 1, Len(a[k]))
         IN  IF field = "unknown" THEN Fail("unknown_argument")
             ELSE IF field = "help" THEN Fail("display_help")
             ELSE IF TakesValue(field)
             THEN IF rest # <<>>
                  THEN LET r == Store(acc, field,
                                      IF starts_with(rest, "=") THEN Tail(rest) ELSE rest)
                       IN  IF r.ok THEN BindFrom(a, k + 1, r.acc) ELSE r
                  ELSE BindNextValue(a, k, field, acc)
             ELSE LET r == Store(acc, field, <<>>)
                  IN  IF r.ok THEN BindShort(a, k, c + 1, r.acc) ELSE r

BindFrom(a, k, acc) ==
    IF k > Len(a)
    THEN [ok |-> TRUE, version |-> acc.version, uppercase |-> acc.uppercase,
          simple |-> acc.simple, full |-> acc.full, count |-> acc.count]
    ELSE IF a[k] = <<"-", "-">>
    THEN IF k < Len(a) THEN Fail("unknown_argument") ELSE BindFrom(a, k + 1, acc)
    ELSE IF IsLongForm(a[k]) THEN BindLong(a, k, acc)
    ELSE IF LooksLikeFlag(a[k]) THEN BindShort(a, k, 2, acc)
    ELSE Fail("unknown_argument")

\* Cli::try_parse_from
Cli_parse(a) == BindFrom(a, 2, CliDefaults)

(***************************************************************************)
(* print_conflict_warning (main.rs 169-179): the two lines it writes.      *)
(***************************************************************************)
print_conflict_warning(pf) ==
    <<"conflict_warning", IF pf THEN "using_full" ELSE "using_simple">>

(***************************************************************************)
(* main (main.rs 211-222).                                                 *)
(***************************************************************************)
\* The first line of the help text: the about of the command
AboutLine == <<"G", "e", "n", "e", "r", "a", "t", "e", " ", "U", "U", "I", "D", " ",
               "v", "4", "/", "v", "7">>

CountTokens == {<<Digits[c + 1]>> : c \in 0..MaxCount}

\* Tokens of the command lines main is run on
MainTokens ==
    { <<"-", "f">>, <<"-", "s">>, <<"-", "f", "s">>, <<"-", "s", "f">>, <<"-", "U">>,
      LongFull, LongSimple, LongVersion,
      <<"-", "V">>, <<"V", "7">>, <<"5">>, <<"-", "n">>, <<"-", "h">> } \cup CountTokens

MainArgLists == {<<ProgramName>> \o rest : rest \in SeqsUpTo(MainTokens, MaxArgs)}

Init ==
    /\ args \in MainArgLists
    /\ pc = "start"
    /\ prefer_full = FALSE
    /\ conflict = FALSE
    /\ cli = [ok |-> FALSE]
    /\ n = 0
    /\ stderr = <<>>
    /\ stdout = <<>>
    /\ exit_code = -1
    /\ seed = 0
    /\ output = <<>>

\* let (prefer_full, conflict) = determine_format_precedence();
DeterminePrecedence ==
    /\ pc = "start"
    /\ LET r == determine_format_precedence(args)
       IN  /\ prefer_full' = r.prefer_full
           /\ conflict' = r.conflict
    /\ pc' = "parse"
    /\ UNCHANGED <<args, cli, n, stderr, stdout, exit_code, seed, output>>

\* let cli = Cli::parse();  the arguments bind
ParseOk ==
    /\ pc = "parse"
    /\ Cli_parse(args).ok
    /\ cli' = Cli_parse(args)
    /\ pc' = "warn"
    /\ UNCHANGED <<args, prefer_full, conflict, n, stderr, stdout, exit_code, seed, output>>

\* let cli = Cli::parse();  clap reports the error, or shows the help, and exits
ParseExit ==
    /\ pc = "parse"
    /\ ~Cli_parse(args).ok
    /\ cli' = Cli_parse(args)
    /\ IF Cli_parse(args).err = "display_help"
       THEN /\ stdout' = Append(stdout, AboutLine)
            /\ exit_code' = 0
            /\ UNCHANGED stderr
       ELSE /\ stderr' = Append(stderr, Cli_parse(args).err)
            /\ exit_code' = 2
            /\ UNCHANGED stdout
    /\ pc' = "exit"
    /\ UNCHANGED <<args, prefer_full, conflict, n, seed, output>>

\* A mutant of WarningDue: the warning is written on every run.
WarningDue_Always(c) == TRUE

\* if conflict { ... }
WarningDue(c) == c

\* if conflict { print_conflict_warning(prefer_full); }
Warn ==
    /\ pc = "warn"
    /\ stderr' = IF WarningDue(conflict) THEN stderr \o print_conflict_warning(prefer_full)
                 ELSE stderr
    /\ pc' = "loop"
    /\ UNCHANGED <<args, prefer_full, conflict, cli, n, stdout, exit_code, seed, output>>

\* A mutant of InRange: the range includes its end.
InRange_Inclusive(k, count) == k <= count

\* for _ in 0..cli.count: whether an iteration follows k completed ones
InRange(k, count) == k < count

\* println!("{}", generate_uuid(...));
Generate ==
    /\ pc = "loop"
    /\ InRange(n, cli.count)
    /\ \E rnd \in 0..(NumSeeds - 1) :
          stdout' = Append(stdout, generate_uuid(cli.version, cli.uppercase, cli.simple,
                                                 cli.full, prefer_full, rnd))
    /\ n' = n + 1
    /\ UNCHANGED <<args, pc, prefer_full, conflict, cli, stderr, exit_code, seed, output>>

\* The loop is over and main returns
Return ==
    /\ pc = "loop"
    /\ ~InRange(n, cli.count)
    /\ exit_code' = 0
    /\ pc' = "exit"
    /\ UNCHANGED <<args, prefer_full, conflict, cli, n, stderr, stdout, seed, output>>

Next == DeterminePrecedence \/ ParseOk \/ ParseExit \/ Warn \/ Generate \/ Return

Spec == Init /\ [][Next]_vars

(***************************************************************************)
(* What a run of main has written.                                         *)
(***************************************************************************)
IsIdentifierLine(line) == IsCompact(line) \/ IsHyphenated(line)

IdentifierLines == {k \in 1..Len(stdout) : IsIdentifierLine(stdout[k])}

Warnings == Cardinality({k \in 1..Len(stderr) : stderr[k] = "conflict_warning"})

HasLower(line) == \E k \in 1..Len(line) : IsLower(line[k])
HasUpper(line) == \E k \in 1..Len(line) : IsUpper(line[k])

\* C5: when the arguments bind, main runs generate_uuid count times and prints
\* count identifier lines, all with the same version, case and format; with
\* count = 0 it prints none and ends normally.
C5_CountLines ==
    /\ cli.ok => (n <= cli.count /\ Len(stdout) = n /\ Cardinality(IdentifierLines) = n)
    /\ (pc = "exit" /\ cli.ok) =>
          /\ n = cli.count
          /\ exit_code = 0
          /\ \A k \in 1..Len(stdout) :
                /\ stdout[k][IF Len(stdout[k]) = 32 THEN 13 ELSE 15]
                      = (IF cli.version = "V4" THEN "4" ELSE "7")
                /\ cli.uppercase => ~HasLower(stdout[k])
                /\ ~cli.uppercase => ~HasUpper(stdout[k])
                /\ Len(stdout[k]) = Len(stdout[1])

C5_Witness ==
    /\ pc = "exit"
    /\ cli.ok
    /\ cli.count >= 2
    /\ Len(stdout) = cli.count
    /\ stdout[1] # stdout[2]

\* C6: when the arguments bind, the conflict warning is written once if
\* conflict is true and never if it is false, whatever count is, and it is
\* written before the first identifier line.
C6_WarningOnce ==
    /\ (cli.ok /\ pc = "warn") => (Warnings = 0 /\ stdout = <<>>)
    /\ (cli.ok /\ pc \in {"loop", "exit"}) => Warnings = (IF conflict THEN 1 ELSE 0)
    /\ (cli.ok /\ stdout # <<>>) => Warnings = (IF conflict THEN 1 ELSE 0)

C6_Witness ==
    /\ pc = "exit"
    /\ cli.ok
    /\ conflict
    /\ cli.count = 0
    /\ Warnings = 1

\* C7: whenever the conflict warning is written both format flags are set in
\* the bound options, and the format it names is that of every identifier
\* printed.
C7_WarningTellsTheTruth ==
    (cli.ok /\ Warnings > 0) =>
        /\ cli.simple /\ cli.full
        /\ \A k \in 1..Len(stdout) :
              IsHyphenated(stdout[k]) <=> (\E h \in 1..Len(stderr) : stderr[h] = "using_full")

VersionOptions == {<<"-", "V">>, <<"-", "v">>, LongVersion}

IsVersionName(val) ==
    val \in {<<"4">>, <<"v", "4">>, <<"V", "4">>, <<"7">>, <<"v", "7">>, <<"V", "7">>}

\* The argument list gives the version option a value that is no version
\* name, and binds when that value is replaced by 4.
InvalidVersionGiven(a) ==
    \E k \in 3..Len(a) :
        /\ a[k - 1] \in VersionOptions
        /\ ~LooksLikeFlag(a[k])
        /\ ~IsVersionName(a[k])
        /\ Cli_parse([a EXCEPT ![k] = <<"4">>]).ok

VersionSamples ==
    { <<"4">>, <<"v", "4">>, <<"V", "4">>, <<"7">>, <<"v", "7">>, <<"V", "7">>,
      <<"5">>, <<"i", "n", "v", "a", "l", "i", "d">>, <<>>, <<"v">>, <<"4", "7">>,
      <<"v", "5">>, <<"V">>, <<"4", "v">> }

\* C8: a version value that is none of 4, v4, 7, v7 in any case makes the
\* binding fail with the invalid-version error, and the run ends with a
\* non-zero status having printed no identifier line and no warning; 4, v4, V4
\* give V4 and 7, v7, V7 give V7.
C8_InvalidVersion ==
    /\ InvalidVersionGiven(args) =>
          /\ stdout = <<>>
          /\ Warnings = 0
          /\ pc = "exit" => (~cli.ok /\ cli.err = "invalid_version" /\ exit_code # 0)
    /\ \A val \in VersionSamples :
          LET r == UuidVersion_from_str(val)
          IN  /\ r.ok <=> IsVersionName(val)
              /\ val \in {<<"4">>, <<"v", "4">>, <<"V", "4">>} => r.v = "V4"
              /\ val \in {<<"7">>, <<"v", "7">>, <<"V", "7">>} => r.v = "V7"

C8_Witness ==
    /\ pc = "exit"
    /\ InvalidVersionGiven(args)
    /\ conflict
    /\ exit_code = 2
    /\ \E k \in 1..Len(args) : args[k] = <<"5">>

(***************************************************************************)
(* main on command lines made of the format flags in all their forms.      *)
(***************************************************************************)
FormatTokens ==
    { <<"-", "s">>, <<"-", "S">>, LongSimple, <<"-", "f">>, <<"-", "F">>, LongFull,
      <<"-", "f", "s">>, <<"-", "S", "f">>, <<"-", "u", "F">>, <<"-", "U">>,
      LongVersion, <<"7">> }

FormatArgLists == {<<ProgramName>> \o rest : rest \in SeqsUpTo(FormatTokens, MaxArgs)}

InitFormatFlags ==
    /\ args \in FormatArgLists
    /\ pc = "start"
    /\ prefer_full = FALSE
    /\ conflict = FALSE
    /\ cli = [ok |-> FALSE]
    /\ n = 0
    /\ stderr = <<>>
    /\ stdout = <<>>
    /\ exit_code = -1
    /\ seed = 0
    /\ output = <<>>

SpecFormatFlags == InitFormatFlags /\ [][Next]_vars

\* The forms in which the argument list gives a flag: its short letter or
\* alias in a single-dash cluster, or its long name.
Given(a, letters, long) ==
    \E k \in 2..Len(a) :
        \/ a[k] = long
        \/ /\ LooksLikeFlag(a[k])
           /\ ~IsLongForm(a[k])
           /\ \E c \in 2..Len(a[k]) : a[k][c] \in letters

\* C11: whenever the arguments bind with simple and full both set, the scan
\* of the same argument list has found both classes, so conflict is true and
\* the prefer_full that generate_uuid reads is the outcome of the comparison
\* of the two positions, not the default of the no-conflict arm.
C11_BothFlagsMeanConflict ==
    (cli.ok /\ cli.simple /\ cli.full) =>
        /\ conflict
        /\ BothClasses(args)
        /\ prefer_full <=> Before(First(Occurrences(args, FullChars)),
                                  First(Occurrences(args, SimpleChars)))

C11_Witness ==
    /\ pc = "exit"
    /\ cli.ok /\ cli.simple /\ cli.full
    /\ Given(args, {}, LongSimple)
    /\ Given(args, {"F"}, LongFull)
    /\ ~Given(args, {"s", "S"}, <<>>)
    /\ \E k \in 2..Len(args) : args[k] = <<"-", "F">>
    /\ ~prefer_full
    /\ Len(stdout) = 1 /\ IsCompact(stdout[1])

====
